---- MODULE Spec2Model ----
(***************************************************************************)
(* Model of Noise2.py: the cyclic tone player (CyclicPlayer), the shared   *)
(* parameter dictionary `params`, the parameter file, and the GUI / tray   *)
(* handlers that drive them.                                               *)
(*                                                                         *)
(* Numbers.  Every Python float of the program is held as an integer count *)
(* of thousandths: 440.0 is 440000, 0.001 is 1, 0.1 is 100.  Entry texts   *)
(* are sequences of one-character strings and are converted by ParseFloat. *)
(*                                                                         *)
(* Granularity.  Each action is one statement of the source that reads or  *)
(* writes shared state; the program counter values are the source line     *)
(* numbers ("l87" is line 87 of src/Noise2.py).                            *)
(***************************************************************************)
EXTENDS Integers, Sequences, FiniteSets, TLC

VARIABLES
    params,     \* the module-level dict `params`
    file,       \* contents of params.json
    thread,     \* player._thread: 0 is None, otherwise a thread slot
    stop_evt,   \* player._stop_evt: TRUE when set
    audio,      \* what sounddevice is playing: "none", "tone", "silence"
    status,     \* text of status_lbl and title of the tray icon
    thr,        \* the Thread objects running CyclicPlayer._run
    clr,        \* the caller threads (Tk main loop, pystray loop)
    levels,     \* the numbers shown by left_lbl and right_lbl
    hist        \* the last two start()/stop() calls that were begun

vars == <<params, file, thread, stop_evt, audio, status, thr, clr, levels, hist>>

----------------------------------------------------------------------------
(* Bounds and sets of the model *)

\* Number of Thread objects that can exist at once.
MaxThreads == 2

Threads == 1..MaxThreads

\* "gui" is the Tk main loop (buttons), "tray" the pystray loop (menu).
Callers == {"gui", "tray"}

Keys == {"frequency", "volume", "play_sec", "cycle_sec"}

----------------------------------------------------------------------------
(* Texts and float() *)

T_440   == <<"4", "4", "0", ".", "0">>
T_880   == <<"8", "8", "0", ".", "0">>
T_0_001 == <<"0", ".", "0", "0", "1">>
T_0_2   == <<"0", ".", "2">>
T_1_5   == <<"1", ".", "5">>
T_m0_5  == <<"-", "0", ".", "5">>
T_0_05  == <<"0", ".", "0", "5">>
T_1     == <<"1", ".", "0">>
T_2     == <<"2", ".", "0">>
T_3     == <<"3", ".", "0">>
T_5     == <<"5", ".", "0">>
T_60    == <<"6", "0", ".", "0">>
T_abc   == <<"a", "b", "c">>
T_empty == <<>>

DigitChars == {"0", "1", "2", "3", "4", "5", "6", "7", "8", "9"}

DigitVal(c) ==
    CASE c = "0" -> 0 [] c = "1" -> 1 [] c = "2" -> 2 [] c = "3" -> 3
      [] c = "4" -> 4 [] c = "5" -> 5 [] c = "6" -> 6 [] c = "7" -> 7
      [] c = "8" -> 8 [] c = "9" -> 9

AllDigits(s) == \A i \in 1..Len(s) : s[i] \in DigitChars

RECURSIVE DigitsVal(_)
DigitsVal(s) ==
    IF s = <<>> THEN 0
    ELSE DigitsVal(SubSeq(s, 1, Len(s) - 1)) * 10 + DigitVal(s[Len(s)])

\* The first three fractional digits as thousandths ("2" is 200, "05" is 50).
FracMilli(s) ==
    LET d(i) == IF i <= Len(s) THEN DigitVal(s[i]) ELSE 0
    IN  d(1) * 100 + d(2) * 10 + d(3)

\* A result of a call that may raise: ok = FALSE stands for the exception.
Ok(v)  == [ok |-> TRUE, val |-> v]
Raised == [ok |-> FALSE, val |-> 0]

\* float(text) for decimal literals: [sign] digits [. digits], at least one
\* digit; every other text raises ValueError.
ParseFloat(s) ==
    LET signed == Len(s) > 0 /\ s[1] \in {"+", "-"}
        body   == IF signed THEN Tail(s) ELSE s
        dots   == {i \in 1..Len(body) : body[i] = "."}
        dot    == IF dots = {} THEN Len(body) + 1
                  ELSE CHOOSE i \in dots : \A j \in dots : i <= j
        ip     == SubSeq(body, 1, dot - 1)
        fp     == SubSeq(body, dot + 1, Len(body))
        good   == /\ Cardinality(dots) <= 1
                  /\ AllDigits(ip) /\ AllDigits(fp)
                  /\ Len(ip) + Len(fp) >= 1
        mag    == DigitsVal(ip) * 1000 + FracMilli(fp)
    IN  IF ~good THEN Raised
        ELSE Ok(IF signed /\ s[1] = "-" THEN 0 - mag ELSE mag)

Max(a, b) == IF a >= b THEN a ELSE b
Min(a, b) == IF a <= b THEN a ELSE b

\* int(x) of a float held in thousandths: truncation toward zero.
IntTrunc(x) == IF x >= 0 THEN x \div 1000 ELSE 0 - ((0 - x) \div 1000)

----------------------------------------------------------------------------
(* Parameters and the parameter file *)

DEFAULT ==
    [frequency |-> 440000, volume |-> 1, play_sec |-> 1000, cycle_sec |-> 60000]

\* A value stored in params.json: a JSON number, a JSON string, or no entry.
JNum(n)  == [kind |-> "num", num |-> n, str |-> <<>>]
JStr(s)  == [kind |-> "str", num |-> 0, str |-> s]
JMissing == [kind |-> "missing", num |-> 0, str |-> <<>>]

NoFile == [exists |-> FALSE, data |-> [k \in Keys |-> JMissing]]

\* json.dump(params): every key with its number.
SavedFile(p) == [exists |-> TRUE, data |-> [k \in Keys |-> JNum(p[k])]]

\* type(DEFAULT[k])(data.get(k, DEFAULT[k])): float() of the stored value.
LoadField(f, k) ==
    LET v == f.data[k]
    IN  CASE v.kind = "missing" -> Ok(DEFAULT[k])
          [] v.kind = "num"     -> Ok(v.num)
          [] v.kind = "str"     -> ParseFloat(v.str)

load_params(f) ==
    IF ~f.exists THEN Ok(DEFAULT)
    ELSE IF \E k \in Keys : ~LoadField(f, k).ok THEN Raised
    ELSE Ok([k \in Keys |-> LoadField(f, k).val])

\* samplerate: the default sample rate of the output device.
samplerate == 44100

\* int(seconds * fs)
Samples(sec) == (sec * samplerate) \div 1000

----------------------------------------------------------------------------
(* Thread objects and caller threads *)

\* Status texts: "stopped" is '已停止' (also the label's text at creation),
\* "waiting" is '等待中'; tray titles: "stopped" is '已停止', "next" is
\* '等待下一轮', "" is the title the icon is created with.
StatusStopped == [label |-> "stopped", tray |-> "stopped"]
StatusWaiting == [label |-> "waiting", tray |-> "next"]

\* A Thread slot.  pc: "free" (no object), "new" (created, not started),
\* a line of _run, "done" (returned), or the exception that ended _run.
\* lastEvent: the last status text this thread passed to update_status.
\* idleUpd, win, cfgs, mixed: history of the parameter updates that overlapped
\* the thread's reads; due: the idle ticks that the params held when the
\* cycle began call for (-1: an update was under way); halt: "idle" when
\* stop() was called during the thread's idle wait and the thread has not
\* tested the stop event at line 65 since.
\* These history fields record, they never steer.
FreshThread ==
    [pc |-> "free", play_samples |-> 0, cycle_samples |-> 0, silence |-> 0,
     vol |-> 0, freq |-> 0, cyc |-> 0, ticks |-> 0,
     lastEvent |-> "none", idleUpd |-> "no",
     win |-> "closed", cfgs |-> {}, mixed |-> FALSE,
     due |-> 0, halt |-> "no"]

DeadPcs == {"done", "ValueError", "DeviceError", "DeviceErrorIdle"}
PlayPcs == {"l68", "l68f", "l72", "l73", "l74"}
IdlePcs == {"l75", "l79", "l80", "l80p", "l81"}
RunPcs  == {"l61", "l62", "l63", "l65", "l83"} \cup PlayPcs \cup IdlePcs

\* Thread.is_alive()
is_alive(t) == t # 0 /\ thr[t].pc \in RunPcs

\* A slot a new Thread object can take: no thread runs in it.  (The object
\* in it is unreachable once self._thread is assigned, or is the very
\* object that assignment replaces.)
FreeSlot(t) == thr[t].pc \notin RunPcs

\* What is left of a thread whose _run has ended.
Ended(t, how) ==
    [FreshThread EXCEPT !.pc = how, !.lastEvent = thr[t].lastEvent]

\* The level labels as created, 'L: 0.000' and 'R: 0.000' (lines 135-138).
\* update_levels (lines 159-162) would set them; nothing calls it.
NoLevels == [left |-> 0, right |-> 0]

NoEnts  == [k \in Keys |-> <<>>]
NoPrior == [k \in Keys |-> 0]

\* A caller.  ents: the texts of the four entries read by apply_params;
\* prior: `params` as it was when apply_params was entered; exc: the
\* exception that ended the caller's last handler, "none" if it returned.
IdleCaller == [pc |-> "idle", ents |-> NoEnts, prior |-> NoPrior, exc |-> "none"]

StartStopPcs == {"l87", "l89", "l90", "l91", "l94", "l95"}
ApplyPcs     == {"l147", "l148", "l149", "l150", "l153"}

InCall(c)   == clr[c].pc \in StartStopPcs
GuiMidApply == clr["gui"].pc \in ApplyPcs

\* hist after caller c begins start() or stop(): the last two calls, or
\* "overlap" when the call runs while another caller is inside start()/stop().
Noted(c, op) ==
    IF \E d \in Callers \ {c} : InCall(d) THEN <<"overlap">>
    ELSE IF hist = <<>> THEN <<op>>
    ELSE <<hist[Len(hist)], op>>

----------------------------------------------------------------------------
(* Initial states *)

\* params.json as left by an earlier run, or absent.
CfgFiles ==
    { NoFile,
      SavedFile([frequency |-> 440000, volume |-> 200,
                 play_sec |-> 1000, cycle_sec |-> 5000]),
      [exists |-> TRUE,
       data |-> [k \in Keys |-> IF k = "volume" THEN JMissing
                                ELSE JNum(DEFAULT[k])]] }

LoopFiles ==
    { SavedFile([frequency |-> 440000, volume |-> 1,
                 play_sec |-> 1000, cycle_sec |-> 3000]) }

InitWith(files) ==
    /\ file \in files
    /\ load_params(file).ok
    /\ params = load_params(file).val
    /\ thread = 0
    /\ stop_evt = FALSE
    /\ audio = "none"
    /\ status = [label |-> "stopped", tray |-> ""]
    /\ thr = [t \in Threads |-> FreshThread]
    /\ clr = [c \in Callers |-> IdleCaller]
    /\ levels = NoLevels
    /\ hist = <<>>

Init == InitWith(LoopFiles)

InitCfg == InitWith(CfgFiles)

----------------------------------------------------------------------------
(* apply_params, lines 145-153 (the '应用' button; it runs in the Tk loop) *)

\* The clamp with its ceiling forgotten: max(0, v).
ClampVolumeNoCeiling(v) == Max(0, v)

\* max(0, min(1, v))
ClampVolume(v) == Max(0, Min(1000, v))

\* max(0.1, v)
ClampSeconds(v) == Max(100, v)

\* The (volume, frequency) pair of a parameter dict: what line 68 reads.
Pair(p) == <<p.volume, p.frequency>>

\* The thread records after apply_params was entered: an update noted for
\* an idle wait that is over no longer counts as made during that wait.
ThrApplyBegin ==
    [t \in Threads |->
        IF thr[t].pc \notin IdlePcs /\ thr[t].idleUpd = "yes"
        THEN [thr[t] EXCEPT !.idleUpd = "poison"]
        ELSE thr[t]]

\* The thread records after apply_params has ended leaving p in `params`:
\* a thread that is between its two reads of line 68, or made its second
\* read during this call, gets p as one of the dicts it may have seen; a
\* thread in its idle wait notes the update (saved) or a partial one.
ThrApplyEnd(p, saved) ==
    [t \in Threads |->
        LET r  == thr[t]
            cs == r.cfgs \cup {Pair(p)}
            r1 == CASE r.win = "open"    -> [r EXCEPT !.cfgs = cs]
                    [] r.win = "closing" ->
                         [r EXCEPT !.win = "closed", !.cfgs = {},
                                   !.mixed = <<r.vol, r.freq>> \notin cs]
                    [] OTHER -> r
        IN  IF r.pc \in IdlePcs
            THEN [r1 EXCEPT !.idleUpd =
                     IF saved /\ r.idleUpd # "poison" THEN "yes" ELSE "poison"]
            ELSE r1]

\* The button is pressed with the four entries holding the texts e.
CallApply(c, e) ==
    /\ c = "gui"
    /\ clr[c].pc = "idle"
    /\ clr' = [clr EXCEPT ![c] =
                  [pc |-> "l147", ents |-> e, prior |-> params, exc |-> "none"]]
    /\ thr' = ThrApplyBegin
    /\ UNCHANGED <<levels, params, file, thread, stop_evt, audio, status, hist>>

\* One assignment params[k] = conv(float(entry.get())) at line `at`: the
\* float() raises ValueError (the handler returns at line 152, `params` as
\* it is) or the value is stored and the handler goes on to line `next`.
ApplyLine(c, at, k, v, next) ==
    /\ clr[c].pc = at
    /\ IF ParseFloat(clr[c].ents[k]).ok
       THEN /\ params' = [params EXCEPT ![k] = v]
            /\ clr' = [clr EXCEPT ![c].pc = next]
            /\ UNCHANGED thr
       ELSE /\ params' = params
            /\ clr' = [clr EXCEPT ![c] = [IdleCaller EXCEPT !.exc = "ValueError"]]
            /\ thr' = ThrApplyEnd(params, FALSE)
    /\ UNCHANGED <<levels, file, thread, stop_evt, audio, status, hist>>

Apply147(c) ==
    ApplyLine(c, "l147", "frequency",
              ParseFloat(clr[c].ents["frequency"]).val, "l148")

Apply148(c) ==
    ApplyLine(c, "l148", "volume",
              ClampVolume(ParseFloat(clr[c].ents["volume"]).val), "l149")

Apply149(c) ==
    ApplyLine(c, "l149", "play_sec",
              ClampSeconds(ParseFloat(clr[c].ents["play_sec"]).val), "l150")

Apply150(c) ==
    ApplyLine(c, "l150", "cycle_sec",
              ClampSeconds(ParseFloat(clr[c].ents["cycle_sec"]).val), "l153")

\* save_params(params), lines 46-48, and the handler returns.
Apply153(c) ==
    /\ clr[c].pc = "l153"
    /\ file' = SavedFile(params)
    /\ clr' = [clr EXCEPT ![c] = IdleCaller]
    /\ thr' = ThrApplyEnd(params, TRUE)
    /\ UNCHANGED <<levels, params, thread, stop_evt, audio, status, hist>>

ApplySteps(c) ==
    \/ Apply147(c)
    \/ Apply148(c)
    \/ Apply149(c)
    \/ Apply150(c)
    \/ Apply153(c)

\* The entry texts tried when only the parameter handling is explored.
CfgEntries ==
    [frequency : {T_440, T_abc},
     volume    : {T_0_001, T_1_5, T_m0_5, T_abc},
     play_sec  : {T_1, T_5, T_0_05, T_empty},
     cycle_sec : {T_60, T_1, T_abc}]

NextCfg ==
    \/ \E e \in CfgEntries : CallApply("gui", e)
    \/ ApplySteps("gui")

\* The program with the player never started: the parameter handling alone.
SpecCfg == InitCfg /\ [][NextCfg]_vars

----------------------------------------------------------------------------
(* CyclicPlayer.start, lines 86-91 *)

\* A handler calls player.start().
CallStart(c) ==
    /\ clr[c].pc = "idle"
    /\ clr' = [clr EXCEPT ![c] = [IdleCaller EXCEPT !.pc = "l87"]]
    /\ hist' = Noted(c, "start")
    /\ UNCHANGED <<levels, params, file, thread, stop_evt, audio, status, thr>>

\* if self._thread and self._thread.is_alive(): return
Start87(c) ==
    /\ clr[c].pc = "l87"
    /\ clr' = [clr EXCEPT ![c].pc = IF is_alive(thread) THEN "idle" ELSE "l89"]
    /\ UNCHANGED <<levels, params, file, thread, stop_evt, audio, status, thr, hist>>

\* self._stop_evt.clear()
Start89(c) ==
    /\ clr[c].pc = "l89"
    /\ stop_evt' = FALSE
    /\ clr' = [clr EXCEPT ![c].pc = "l90"]
    /\ UNCHANGED <<levels, params, file, thread, audio, status, thr, hist>>

\* self._thread = threading.Thread(target=self._run, daemon=True): a new
\* Thread object takes the lowest slot in which no thread runs.
Start90(c) ==
    /\ clr[c].pc = "l90"
    /\ \E t \in Threads :
          /\ FreeSlot(t)
          /\ \A u \in Threads : FreeSlot(u) => t <= u
          /\ thr' = [thr EXCEPT ![t] = [FreshThread EXCEPT !.pc = "new"]]
          /\ thread' = t
    /\ clr' = [clr EXCEPT ![c].pc = "l91"]
    /\ UNCHANGED <<levels, params, file, stop_evt, audio, status, hist>>

\* self._thread.start(): the attribute is read again, so this starts the
\* Thread stored last; starting a Thread a second time raises RuntimeError.
Start91(c) ==
    /\ clr[c].pc = "l91"
    /\ IF thr[thread].pc = "new"
       THEN /\ thr' = [thr EXCEPT ![thread].pc = "l61"]
            /\ clr' = [clr EXCEPT ![c].pc = "idle"]
       ELSE /\ thr' = thr
            /\ clr' = [clr EXCEPT ![c] = [IdleCaller EXCEPT !.exc = "RuntimeError"]]
    /\ UNCHANGED <<levels, params, file, thread, stop_evt, audio, status, hist>>

----------------------------------------------------------------------------
(* CyclicPlayer.stop, lines 93-95 *)

\* A handler calls player.stop().
CallStop(c) ==
    /\ clr[c].pc = "idle"
    /\ clr' = [clr EXCEPT ![c] = [IdleCaller EXCEPT !.pc = "l94"]]
    /\ hist' = Noted(c, "stop")
    /\ UNCHANGED <<levels, params, file, thread, stop_evt, audio, status, thr>>

\* The thread records after the stop event was set: a loop thread in its
\* idle wait notes that stop() was called.
ThrStopCalled ==
    [t \in Threads |->
        IF thr[t].pc \in IdlePcs \ {"l75"} THEN [thr[t] EXCEPT !.halt = "idle"]
        ELSE thr[t]]

\* self._stop_evt.set()
Stop94(c) ==
    /\ clr[c].pc = "l94"
    /\ stop_evt' = TRUE
    /\ clr' = [clr EXCEPT ![c].pc = "l95"]
    /\ thr' = ThrStopCalled
    /\ UNCHANGED <<levels, params, file, thread, audio, status, hist>>

\* sd.stop(): whatever is playing is cut off; stop() returns.
Stop95(c) ==
    /\ clr[c].pc = "l95"
    /\ audio' = "none"
    /\ clr' = [clr EXCEPT ![c].pc = "idle"]
    /\ UNCHANGED <<levels, params, file, thread, stop_evt, status, thr, hist>>

----------------------------------------------------------------------------
(* toggle_play, lines 164-168 (the button and the tray menu item) *)

CallToggle(c) ==
    /\ clr[c].pc = "idle"
    /\ clr' = [clr EXCEPT ![c] = [IdleCaller EXCEPT !.pc = "l165"]]
    /\ UNCHANGED <<levels, params, file, thread, stop_evt, audio, status, thr, hist>>

\* if player._thread and player._thread.is_alive(): player.stop()
\* else: player.start()
Toggle165(c) ==
    /\ clr[c].pc = "l165"
    /\ IF is_alive(thread)
       THEN /\ clr' = [clr EXCEPT ![c].pc = "l94"]
            /\ hist' = Noted(c, "stop")
       ELSE /\ clr' = [clr EXCEPT ![c].pc = "l87"]
            /\ hist' = Noted(c, "start")
    /\ UNCHANGED <<levels, params, file, thread, stop_evt, audio, status, thr>>

CallerSteps(c) ==
    \/ CallStart(c)
    \/ Start87(c)
    \/ Start89(c)
    \/ Start90(c)
    \/ Start91(c)
    \/ CallStop(c)
    \/ Stop94(c)
    \/ Stop95(c)
    \/ CallToggle(c)
    \/ Toggle165(c)

----------------------------------------------------------------------------
(* CyclicPlayer._run, lines 59-84 *)

\* The thread record of t with its pc moved on.
At(t, next) == [thr[t] EXCEPT !.pc = next]

\* What a step of _run leaves alone besides thr, audio and status.
RunFrame == UNCHANGED <<levels, params, file, thread, stop_evt, clr, hist>>

\* play_samples = int(params['play_sec'] * fs)
Run61(t) ==
    /\ thr[t].pc = "l61"
    /\ thr' = [thr EXCEPT ![t] =
                  [At(t, "l62") EXCEPT !.play_samples = Samples(params.play_sec)]]
    /\ UNCHANGED <<audio, status>>
    /\ RunFrame

\* cycle_samples = int(params['cycle_sec'] * fs)
Run62(t) ==
    /\ thr[t].pc = "l62"
    /\ thr' = [thr EXCEPT ![t] =
                  [At(t, "l63") EXCEPT !.cycle_samples = Samples(params.cycle_sec)]]
    /\ UNCHANGED <<audio, status>>
    /\ RunFrame

\* silence = np.zeros((cycle_samples - play_samples, 2)): a negative
\* dimension raises ValueError, which ends the thread.
Run63(t) ==
    /\ thr[t].pc = "l63"
    /\ LET n == thr[t].cycle_samples - thr[t].play_samples
       IN  thr' = [thr EXCEPT ![t] =
                      IF n < 0 THEN Ended(t, "ValueError")
                      ELSE [At(t, "l65") EXCEPT !.silence = n,
                                                !.cycle_samples = 0]]
    /\ UNCHANGED <<audio, status>>
    /\ RunFrame

\* while not self._stop_evt.is_set():
Run65(t) ==
    /\ thr[t].pc = "l65"
    /\ thr' = [thr EXCEPT ![t] =
                  IF stop_evt THEN [At(t, "l83") EXCEPT !.halt = "no"]
                  ELSE [At(t, "l68") EXCEPT
                           !.halt = "no",
                           !.due = IF GuiMidApply THEN 0 - 1
                                   ELSE Max(0, IntTrunc(params.cycle_sec
                                                        - params.play_sec))]]
    /\ UNCHANGED <<audio, status>>
    /\ RunFrame

\* Line 68, left operand: params['volume'] is read.
Run68(t) ==
    /\ thr[t].pc = "l68"
    /\ thr' = [thr EXCEPT ![t] =
                  [At(t, "l68f") EXCEPT
                      !.vol = params.volume,
                      !.win = "open",
                      !.cfgs = {Pair(IF GuiMidApply THEN clr["gui"].prior
                                     ELSE params)},
                      !.mixed = FALSE]]
    /\ UNCHANGED <<audio, status>>
    /\ RunFrame

\* np.column_stack([a, b]) of two mono signals of n samples; a signal is
\* held as its <<amplitude, frequency>>.
ColumnStack(a, b, n) == [frames |-> n, left |-> a, right |-> b]

\* The buffer sig of a thread that is past line 69: the sine of
\* play_samples samples with the volume and frequency read at line 68,
\* stacked with itself.
sig(t) ==
    LET mono == <<thr[t].vol, thr[t].freq>>
    IN  ColumnStack(mono, mono, thr[t].play_samples)

\* Line 68, right operand: params['frequency'] is read; sig is built from
\* play_samples, vol and freq (lines 67-69).
Run68f(t) ==
    /\ thr[t].pc = "l68f"
    /\ LET f == params.frequency
       IN  thr' = [thr EXCEPT ![t] =
                      IF GuiMidApply
                      THEN [At(t, "l72") EXCEPT !.freq = f, !.win = "closing"]
                      ELSE [At(t, "l72") EXCEPT
                               !.freq = f, !.win = "closed", !.cfgs = {},
                               !.mixed = <<thr[t].vol, f>> \notin thr[t].cfgs]]
    /\ UNCHANGED <<audio, status>>
    /\ RunFrame

\* with sd.OutputStream(samplerate=fs, channels=2, blocksize=1024):
Run72(t) ==
    /\ thr[t].pc = "l72"
    /\ thr' = [thr EXCEPT ![t] = At(t, "l73")]
    /\ UNCHANGED <<audio, status>>
    /\ RunFrame

\* sd.play(sig, samplerate=fs): the tone replaces whatever was playing.
Run73(t) ==
    /\ thr[t].pc = "l73"
    /\ audio' = "tone"
    /\ thr' = [thr EXCEPT ![t] = At(t, "l74")]
    /\ UNCHANGED status
    /\ RunFrame

\* sd.wait() returns once nothing is playing (played out, or sd.stop());
\* the idle part of the cycle begins.
Run74(t) ==
    /\ thr[t].pc = "l74"
    /\ audio = "none"
    /\ thr' = [thr EXCEPT ![t] =
                  [At(t, "l75") EXCEPT
                      !.idleUpd = IF GuiMidApply THEN "poison" ELSE "no"]]
    /\ UNCHANGED <<audio, status>>
    /\ RunFrame

\* The output device fails in lines 72-74: the exception leaves _run, no
\* handler catches it, the thread ends.
DeviceError(t) ==
    /\ thr[t].pc \in {"l72", "l73", "l74"}
    /\ audio' = IF thr[t].pc = "l72" THEN audio ELSE "none"
    /\ thr' = [thr EXCEPT ![t] = Ended(t, "DeviceError")]
    /\ UNCHANGED status
    /\ RunFrame

\* update_status('等待中'); update_tray_tooltip('等待下一轮')
Run75(t) ==
    /\ thr[t].pc = "l75"
    /\ status' = StatusWaiting
    /\ thr' = [thr EXCEPT ![t] = [At(t, "l79") EXCEPT !.lastEvent = "waiting"]]
    /\ UNCHANGED audio
    /\ RunFrame

\* sd.play(silence, samplerate=fs): returns at once, the silence plays on.
Run79(t) ==
    /\ thr[t].pc = "l79"
    /\ audio' = "silence"
    /\ thr' = [thr EXCEPT ![t] = At(t, "l80")]
    /\ UNCHANGED status
    /\ RunFrame

\* The output device fails in line 79.
DeviceErrorIdle(t) ==
    /\ thr[t].pc = "l79"
    /\ audio' = "none"
    /\ thr' = [thr EXCEPT ![t] = Ended(t, "DeviceErrorIdle")]
    /\ UNCHANGED status
    /\ RunFrame

\* Line 80, left operand: params['cycle_sec'] is read.
Run80(t) ==
    /\ thr[t].pc = "l80"
    /\ thr' = [thr EXCEPT ![t] = [At(t, "l80p") EXCEPT !.cyc = params.cycle_sec]]
    /\ UNCHANGED <<audio, status>>
    /\ RunFrame

\* Line 80, right operand: params['play_sec'] is read and
\* range(int(cycle_sec - play_sec)) is built: the number of ticks to come.
Run80p(t) ==
    /\ thr[t].pc = "l80p"
    /\ thr' = [thr EXCEPT ![t] =
                  [At(t, "l81") EXCEPT
                      !.ticks = Max(0, IntTrunc(thr[t].cyc - params.play_sec)),
                      !.cyc = 0, !.due = 0]]
    /\ UNCHANGED <<audio, status>>
    /\ RunFrame

\* The thread record of t as it leaves the idle wait for line 65.
LeaveIdle(t) ==
    [At(t, "l65") EXCEPT
        !.ticks = 0,
        !.idleUpd = IF GuiMidApply THEN "poison" ELSE thr[t].idleUpd]

\* self._stop_evt.wait(1) times out: one tick of the range is used up.
Run81Tick(t) ==
    /\ thr[t].pc = "l81"
    /\ thr[t].ticks > 0
    /\ ~stop_evt
    /\ thr' = [thr EXCEPT ![t].ticks = thr[t].ticks - 1]
    /\ UNCHANGED <<audio, status>>
    /\ RunFrame

\* self._stop_evt.wait(1) returns True: break.
Run81Break(t) ==
    /\ thr[t].pc = "l81"
    /\ thr[t].ticks > 0
    /\ stop_evt
    /\ thr' = [thr EXCEPT ![t] = LeaveIdle(t)]
    /\ UNCHANGED <<audio, status>>
    /\ RunFrame

\* The range is used up: back to the while test.
Run81End(t) ==
    /\ thr[t].pc = "l81"
    /\ thr[t].ticks = 0
    /\ thr' = [thr EXCEPT ![t] = LeaveIdle(t)]
    /\ UNCHANGED <<audio, status>>
    /\ RunFrame

\* update_status('已停止'); update_tray_tooltip('已停止'); _run returns.
Run83(t) ==
    /\ thr[t].pc = "l83"
    /\ status' = StatusStopped
    /\ thr' = [thr EXCEPT ![t] =
                  [Ended(t, "done") EXCEPT !.lastEvent = "stopped"]]
    /\ UNCHANGED audio
    /\ RunFrame

\* The buffer handed to sd.play has been played to its end.
AudioEnds ==
    /\ audio # "none"
    /\ audio' = "none"
    /\ UNCHANGED <<levels, params, file, thread, stop_evt, status, thr, clr, hist>>

RunSteps(t) ==
    \/ Run61(t)
    \/ Run62(t)
    \/ Run63(t)
    \/ Run65(t)
    \/ Run68(t)
    \/ Run68f(t)
    \/ Run72(t)
    \/ Run73(t)
    \/ Run74(t)
    \/ DeviceError(t)
    \/ Run75(t)
    \/ Run79(t)
    \/ DeviceErrorIdle(t)
    \/ Run80(t)
    \/ Run80p(t)
    \/ Run81Tick(t)
    \/ Run81Break(t)
    \/ Run81End(t)
    \/ Run83(t)

----------------------------------------------------------------------------
(* The program *)

\* The player driven by the window's button and the tray menu at once,
\* the parameters as loaded.
Next ==
    \/ \E c \in Callers : CallerSteps(c)
    \/ \E t \in Threads : RunSteps(t)
    \/ AudioEnds

Spec == Init /\ [][Next]_vars

\* The entry texts tried while the player runs.
LoopEntries ==
    { [frequency |-> T_880, volume |-> T_0_2, play_sec |-> T_2, cycle_sec |-> T_3],
      [frequency |-> T_440, volume |-> T_0_001, play_sec |-> T_1, cycle_sec |-> T_3],
      [frequency |-> T_440, volume |-> T_abc, play_sec |-> T_3, cycle_sec |-> T_1] }

\* The player driven from the window alone, its parameters edited and
\* applied while it runs.
NextUpd ==
    \/ CallerSteps("gui")
    \/ \E e \in LoopEntries : CallApply("gui", e)
    \/ ApplySteps("gui")
    \/ \E t \in Threads : RunSteps(t)
    \/ AudioEnds

SpecUpd == Init /\ [][NextUpd]_vars

\* params.json files with which the window alone drives the player: whole
\* seconds, an idle part of half a second, a play length whose sample count
\* is not whole.
RunFiles ==
    { SavedFile([frequency |-> 440000, volume |-> 200,
                 play_sec |-> 1000, cycle_sec |-> 3000]),
      SavedFile([frequency |-> 440000, volume |-> 200,
                 play_sec |-> 1000, cycle_sec |-> 1500]),
      SavedFile([frequency |-> 880000, volume |-> 1,
                 play_sec |-> 106, cycle_sec |-> 2500]) }

InitRun == InitWith(RunFiles)

\* The player driven from the window alone, the parameters as loaded.
NextRun ==
    \/ CallerSteps("gui")
    \/ \E t \in Threads : RunSteps(t)
    \/ AudioEnds

SpecRun == InitRun /\ [][NextRun]_vars

\* Entry texts with a play length above the cycle length.
LongPlayEntries ==
    { [frequency |-> T_440, volume |-> T_0_001, play_sec |-> T_3, cycle_sec |-> T_1] }

\* The player driven from the window alone, with such an update applied.
NextLong ==
    \/ CallerSteps("gui")
    \/ \E e \in LongPlayEntries : CallApply("gui", e)
    \/ ApplySteps("gui")
    \/ \E t \in Threads : RunSteps(t)
    \/ AudioEnds

SpecLong == Init /\ [][NextLong]_vars

----------------------------------------------------------------------------
(* Start of the program: params = load_params(), line 50 *)

\* The values a key of params.json may hold.
StoredVals == {JMissing, JNum(2000), JStr(T_3), JStr(T_abc)}

LoadFiles ==
    {NoFile} \cup {[exists |-> TRUE, data |-> d] : d \in [Keys -> StoredVals]}

\* The module is being imported: line 50 is about to run in the main thread,
\* `params` is not bound yet (held as NoPrior).
InitBoot ==
    /\ file \in LoadFiles
    /\ params = NoPrior
    /\ thread = 0
    /\ stop_evt = FALSE
    /\ audio = "none"
    /\ status = [label |-> "stopped", tray |-> ""]
    /\ thr = [t \in Threads |-> FreshThread]
    /\ clr = [c \in Callers |->
                 IF c = "gui" THEN [IdleCaller EXCEPT !.pc = "l50"]
                 ELSE IdleCaller]
    /\ levels = NoLevels
    /\ hist = <<>>

\* params = load_params(): the dict is bound, or float() raises ValueError,
\* the import fails and the process ends.
Load50(c) ==
    /\ clr[c].pc = "l50"
    /\ IF load_params(file).ok
       THEN /\ params' = load_params(file).val
            /\ clr' = [clr EXCEPT ![c] = IdleCaller]
       ELSE /\ params' = params
            /\ clr' = [clr EXCEPT ![c] =
                          [IdleCaller EXCEPT !.pc = "exit", !.exc = "ValueError"]]
    /\ UNCHANGED <<levels, file, thread, stop_evt, audio, status, thr, hist>>

NextLoad == Load50("gui")

SpecLoad == InitBoot /\ [][NextLoad]_vars

----------------------------------------------------------------------------
(* Properties *)

AllIdle == \A c \in Callers : clr[c].pc = "idle"

Alive == {t \in Threads : is_alive(t)}

\* The last start()/stop() call begun was a stop(), it ran alone, it has
\* returned, and no handler has been entered since.
Quiet == AllIdle /\ hist # <<>> /\ hist[Len(hist)] = "stop"

\* A step in which a loop thread begins an audio output call: sd.play of the
\* tone (line 73) or sd.play of the silence (line 79).
BeginsAudio ==
    \E t \in Threads :
        \/ thr[t].pc = "l73" /\ thr'[t].pc = "l74"
        \/ thr[t].pc = "l79" /\ thr'[t].pc = "l80"

\* C1: once stop() has returned and start() has not been called again, no
\* loop thread begins an audio output call (tone or silence).
C1_NoAudioAfterStop == [][Quiet => ~BeginsAudio]_vars

\* C2: stop() joins: in the state in which stop() returns (line 95 done), no
\* loop thread is alive.
C2_StopJoins ==
    [][\A c \in Callers :
          (clr[c].pc = "l95" /\ clr'[c].pc = "idle")
              => \A t \in Threads : thr'[t].pc \notin RunPcs]_vars

\* C3: whatever the interleaving of the callers' start() and stop() calls, at
\* most one loop thread is alive.
C3_AtMostOneLoop == Cardinality(Alive) <= 1

\* C4: after two start() calls in a row, run one after the other, exactly one
\* loop runs (no loop thread having died of an exception); after two stop()
\* calls in a row, no loop runs and neither call raised.
C4_Idempotent ==
    AllIdle =>
        /\ (/\ hist = <<"start", "start">>
            /\ \A t \in Threads : thr[t].pc \notin (DeadPcs \ {"done"}))
              => Cardinality(Alive) = 1
        /\ hist = <<"stop", "stop">>
              => /\ Alive = {}
                 /\ \A c \in Callers : clr[c].exc = "none"

\* The tone a thread has built is the one the current params describe.
SigIsCurrent(t) ==
    /\ thr[t].play_samples = Samples(params.play_sec)
    /\ thr[t].vol = params.volume
    /\ thr[t].freq = params.frequency

\* An idle wait in progress loses ticks only to time-outs, one at a time, and
\* ends early only on the stop event.
IdleKept ==
    \A t \in Threads :
        thr[t].pc = "l81" =>
            IF thr'[t].pc = "l81"
            THEN thr'[t].ticks \in {thr[t].ticks, thr[t].ticks - 1}
            ELSE thr[t].ticks = 0 \/ stop_evt

\* C5: an update applied during the idle wait does not shorten that wait, and
\* the play phase that follows uses the updated frequency, volume and
\* play_sec.
C5_IdleUpdateTakesEffect ==
    /\ [](\A t \in Threads :
            (thr[t].pc \in {"l72", "l73", "l74"} /\ thr[t].idleUpd = "yes")
                => SigIsCurrent(t))
    /\ [][IdleKept]_vars

\* C6: whenever no update is in progress, cycle_sec >= play_sec.
C6_CycleAtLeastPlay ==
    ~GuiMidApply => params.cycle_sec >= params.play_sec

\* C7: an update that is rejected (a field does not parse) leaves params as
\* it was when apply_params was entered.
C7_RejectKeepsConfig ==
    [][(GuiMidApply /\ clr'["gui"].exc = "ValueError")
          => params' = clr["gui"].prior]_vars

\* C8: the (volume, frequency) pair a loop thread reads for one play phase is
\* the pair of one whole params dict: the one held before an update that
\* overlapped the reads, or one left by such an update.
C8_AtomicConfig == \A t \in Threads : ~thr[t].mixed

\* The update of the spec's example: all four fields in range.
ExampleEnts ==
    [frequency |-> T_440, volume |-> T_0_001, play_sec |-> T_1, cycle_sec |-> T_60]

\* apply_params returns in this step.
ApplyReturns == GuiMidApply /\ clr'["gui"].pc = "idle"

\* The volume entry holds a number outside [0, 1].
VolumeOutOfRange(e) ==
    /\ ParseFloat(e.volume).ok
    /\ (ParseFloat(e.volume).val < 0 \/ ParseFloat(e.volume).val > 1000)

\* C9 (as claimed): an update whose volume is outside [0, 1] is rejected and
\* the volume stays as it was; the example update is accepted and becomes
\* the held params.
C9_OutOfRangeRejected ==
    [][ApplyReturns =>
          LET e == clr["gui"].ents
          IN  /\ VolumeOutOfRange(e)
                   => /\ clr'["gui"].exc = "ValueError"
                      /\ params'.volume = clr["gui"].prior.volume
              /\ e = ExampleEnts
                   => /\ clr'["gui"].exc = "none"
                      /\ params' = [frequency |-> 440000, volume |-> 1,
                                    play_sec |-> 1000, cycle_sec |-> 60000]]_vars

\* C9 (amended): an update whose volume is outside [0, 1] and whose other
\* fields parse is accepted with the volume clamped to the nearer bound (1.0
\* for a volume above 1, 0.0 for one below 0); the example update is
\* accepted and becomes the held params.
C9_OutOfRangeClamped ==
    [][ApplyReturns =>
          LET e == clr["gui"].ents
              v == ParseFloat(e.volume).val
          IN  /\ (/\ VolumeOutOfRange(e)
                  /\ \A k \in Keys : ParseFloat(e[k]).ok)
                   => /\ clr'["gui"].exc = "none"
                      /\ params'.volume = IF v > 1000 THEN 1000 ELSE 0
                      /\ file'.data["volume"].num = params'.volume
              /\ e = ExampleEnts
                   => /\ clr'["gui"].exc = "none"
                      /\ params' = [frequency |-> 440000, volume |-> 1,
                                    play_sec |-> 1000, cycle_sec |-> 60000]]_vars

\* C9 witness: apply_params has stored every field of an update whose volume
\* entry is 1.5, and the volume held is 1.0, not the one held before.
C9_Witness ==
    /\ clr["gui"].pc = "l153"
    /\ clr["gui"].ents.volume = T_1_5
    /\ params.volume = 1000
    /\ clr["gui"].prior.volume # 1000

\* C10: a loop thread that died of a device failure in its play phase has
\* reported it: the last status event it emitted is neither none nor
\* "waiting".
C10_FailureReported ==
    \A t \in Threads :
        thr[t].pc = "DeviceError" => thr[t].lastEvent \notin {"none", "waiting"}

\* C11: a loop thread in a play phase has emitted "playing" last, one in an
\* idle phase "waiting", one that has returned "stopped".
C11_StatusPerPhase ==
    \A t \in Threads :
        /\ thr[t].pc \in {"l72", "l73", "l74"} => thr[t].lastEvent = "playing"
        /\ thr[t].pc \in {"l79", "l80", "l80p", "l81"}
              => thr[t].lastEvent = "waiting"
        /\ thr[t].pc = "done" => thr[t].lastEvent = "stopped"

\* C12: with cycle_sec >= play_sec, the idle wait scheduled after a play
\* phase lasts exactly cycle_sec - play_sec (ticks of one second each), so
\* that play phases begin cycle_sec apart.
C12_IdleIsCycleMinusPlay ==
    [][\A t \in Threads :
          (/\ thr[t].pc = "l80p" /\ thr'[t].pc = "l81"
           /\ params.cycle_sec >= params.play_sec)
              => thr'[t].ticks * 1000 = params.cycle_sec - params.play_sec]_vars

Abs(x) == IF x >= 0 THEN x ELSE 0 - x

\* C13: while a loop thread plays its tone the level readout is non-zero and
\* at most the volume in absolute value, on both channels; while it idles
\* the readout is 0 on both.
C13_LevelsFollowPhase ==
    \A t \in Threads :
        /\ (thr[t].pc = "l74" /\ audio = "tone")
              => /\ levels.left # 0 /\ Abs(levels.left) <= thr[t].vol
                 /\ levels.right # 0 /\ Abs(levels.right) <= thr[t].vol
        /\ thr[t].pc \in {"l80", "l80p", "l81"}
              => levels.left = 0 /\ levels.right = 0

\* C14: line 50 never fails: every key gets its stored value when that is a
\* number or a text float() accepts, and its default otherwise.
C14_LoadNeverFails ==
    clr["gui"].pc # "l50" =>
        /\ clr["gui"].exc = "none"
        /\ \A k \in Keys :
              params[k] = IF file.exists /\ LoadField(file, k).ok
                          THEN LoadField(file, k).val
                          ELSE DEFAULT[k]

\* round(x) of x = a / 1000, halves to the even neighbour.
RoundMilli(a) ==
    LET q == a \div 1000
        r == a % 1000
    IN  IF r > 500 \/ (r = 500 /\ q % 2 = 1) THEN q + 1 ELSE q

\* The tone buffer exists: the thread is past line 69 and in its play phase.
HasSig(t) == thr[t].pc \in {"l72", "l73", "l74"}

\* C15: the tone buffer of a play phase has round(play_sec * samplerate)
\* frames and its two channels are the same at every index.
C15_RoundedFrames ==
    \A t \in Threads :
        HasSig(t) =>
            /\ sig(t).frames = RoundMilli(params.play_sec * samplerate)
            /\ sig(t).left = sig(t).right

\* C16: the idle ticks scheduled in a cycle are those of the cycle_sec and
\* play_sec held when the cycle began (no update being under way then),
\* whatever was applied while the tone played.
C16_IdleFromCycleSnapshot ==
    [][\A t \in Threads :
          (thr[t].pc = "l80p" /\ thr'[t].pc = "l81" /\ thr[t].due >= 0)
              => thr'[t].ticks = thr[t].due]_vars

\* C17: a loop thread whose idle wait saw a stop() call uses up no further
\* tick, begins no further play phase, and emits "stopped" when it returns.
C17_IdleStopIsPrompt ==
    [][\A t \in Threads :
          thr[t].halt = "idle" =>
              /\ ~(thr[t].pc = "l81" /\ thr'[t].pc = "l81"
                   /\ thr'[t].ticks < thr[t].ticks)
              /\ thr'[t].pc # "l68"
              /\ thr'[t].pc = "done" => thr'[t].lastEvent = "stopped"]_vars

\* C18: after stop() and then start(), run one after the other and both
\* returned, a loop thread is alive (no loop thread having died of an
\* exception).
C18_StartNotLost ==
    (/\ AllIdle
     /\ hist = <<"stop", "start">>
     /\ \A t \in Threads : thr[t].pc \notin (DeadPcs \ {"done"}))
        => Alive # {}

\* C19: the stop event, once set, is cleared only when no loop thread is
\* alive: a start() that follows a stop() leaves no older loop running.
C19_StopNotLost == [][(stop_evt /\ ~stop_evt') => Alive = {}]_vars

\* C20: no loop thread ends with the ValueError of line 63, whatever
\* apply_params left in params.
C20_LoopReachesPlay == \A t \in Threads : thr[t].pc # "ValueError"

====
